---- MODULE Spec2Model ----
\* Verification model of the AivisSpeech Discord read-aloud bot:
\*   src/src/guild_tts_manager.py  per-guild playback queue
\*   src/main.py                   synthesis race, on_message, voice guard
\* One guild is modelled; guilds share no state (queue_dict, _restart_locks and
\* _backoff_state are all keyed by guild id).
EXTENDS Integers, Sequences, FiniteSets, TLC

\* ---------------------------------------------------------------- bounds
MaxItems == 3      \* entries enqueued in one behaviour
MaxVC == 2         \* VoiceClient objects created in one behaviour
MaxMsgs == 2       \* text messages received in one behaviour
MaxProcs == 2      \* command and presence handlers running at the same time
MaxUsers == 2      \* non-bot members of the guild

ItemIds == 1..MaxItems
VCs == 1..MaxVC
NoVC == 0          \* guild.voice_client is None
NoItem == [id |-> 0, file_path |-> "none", delete_after_play |-> FALSE]

VARIABLES
  queue,      \* queue_dict[guild.id]: sequence of entries
  connected,  \* connected[h]: VoiceClient h .is_connected()
  vcur,       \* guild.voice_client (NoVC or a handle)
  nvc,        \* number of VoiceClient objects created so far
  vch,        \* vch[h]: channel of VoiceClient h (h.channel), 0 before it exists
  meCh,       \* guild.me.voice.channel as the server reports it, 0 for none
  playing,    \* playing[h]: the entry whose AudioPlayer makes h.is_playing() true
  ended,      \* players that stopped and whose after callback has not run yet
  sched,      \* sched[h]: pending loop.call_soon_threadsafe(self.play, h, queue)
  files,      \* ids of entries whose file_path exists on disk
  made,       \* made[i]: the entry built with id i, NoItem before (history)
  notes,      \* notes[i]: what entry i announces (history)
  st,         \* st[i]: what has become of entry i (history)
  enqLog,     \* [id, vc] in the order queue.append took the entries (history)
  handed      \* [id, vc] in the order entries were passed to vc.play (history)

VARIABLES
  rkind,      \* which race runs: "bytes" (generate_wav_bytes), "file" (generate_wav)
  rpc,        \* "idle", "waiting" (in the as_completed loop) or "returned"
  task,       \* task[s]: state of the task created for server s
  hdr,        \* hdr[s]: header of the synthesis response task s received
  todo,       \* as_completed: tasks whose completion is still awaited
  doneq,      \* as_completed: completions in order, NoServer for a timeout dummy
  consumed,   \* iterations of the for loop over as_completed done so far
  winner,     \* the local winner, NoServer for None; the value returned
  rfiles,     \* servers whose output path exists on disk (file race)
  late,       \* cancelled tasks whose backend answered after the cancel (history)
  firstOk,    \* first task that completed with a valid result (history)
  rcause      \* why the loop ended: "winner", "timeout", "allfailed" (history)

VARIABLES
  mpc,        \* mpc[m]: on_message handler of message m: "none", "synth", "done"
  mvc,        \* mvc[m]: the local vc the handler read from guild.voice_client
  mitem       \* mitem[m]: id of the entry the handler enqueued, 0 if none (history)

mvars == <<mpc, mvc, mitem>>

VARIABLES
  lock,       \* _restart_locks[guild.id]: 0 when free, else the handler holding it
  pflow,      \* pflow[p]: which flow handler p runs
  ppc,        \* ppc[p]: the await handler p is suspended at, "idle" when none
  pvc,        \* pvc[p]: the local vc the flow read from guild.voice_client
  pch,        \* pch[p]: the channel the flow will connect to (ch / target_ch)
  puser,      \* puser[p]: user_ch of the command, 0 for None
  patt,       \* patt[p]: loop index i of safe_connect
  clip,       \* saved_wav/bot_join.wav exists on disk
  backoff,    \* _backoff_state[guild.id], the backoff step
  cool,       \* due times of the _cooldown tasks that still sleep
  now,        \* the time, in ticks of TickS seconds
  lastDelay,  \* delay computed by the most recent restart_voice (history)
  nrest,      \* restarts begun since the step was last reset, capped (history)
  lastAttempt, \* the time at which the most recent restart_voice began (history)
  loc         \* loc[u]: the voice channel of non-bot member u, 0 for none

bvars == <<backoff, lastDelay, nrest, lastAttempt, cool>>

VARIABLES
  wsrc,        \* the open source: "none", "bytes" (BytesWavPCMSource) or "file" (WavPCMSource)
  wch,         \* self._channels / getnchannels() of the open WAV
  wdata,       \* the bytes of the WAV's data chunk
  wpos,        \* how many of them readframes has consumed
  padded_last, \* self._padded_last
  outs         \* what the read() calls returned so far, in order (history)

wvars == <<wsrc, wch, wdata, wpos, padded_last, outs>>

VARIABLES
  boot,               \* "import" before load_voice_mapping() ran, then "up" or "aborted"
  voice_file,         \* what voice_mapping.yaml holds
  user_voice_mapping, \* user_voice_mapping[u]: the record of user u
  save_pending,       \* _save_pending
  later,              \* TRUE while a _later task sleeps
  wcount,             \* writes of the file since _save_pending was last set (history)
  werr,               \* a write of the file has failed (history)
  perr                \* the last operation that raised on a record, "none" if none (history)

svars == <<boot, voice_file, user_voice_mapping, save_pending, later, wcount, werr, perr>>

VARIABLES
  qkind,   \* the race the timed requests belong to: "none", "bytes" or "file"
  qnow,    \* seconds since the race created its tasks
  qpc,     \* qpc[s]: the request to server s: "none", "query", "synth", "ok", "failed", "cancelled"
  qbegin,  \* qbegin[s]: when the current step of the request began
  qquery,  \* qquery[s]: how long the audio_query step took (history)
  qend     \* qend[s]: when the request ended (history)

tvars == <<qkind, qnow, qpc, qbegin, qquery, qend>>

VARIABLES
  clips,   \* clips[a][u]: the display name the saved clip {a}_{guild}_{u}.wav was made from, "" if no file
  stale    \* a cached clip was returned that was made from another name than the current one (history)

cvars == <<clips, stale>>

ovars == <<wvars, svars, tvars, cvars>>

gvars == <<lock, pflow, ppc, pvc, pch, puser, patt, clip, now, loc, bvars>>

rvars == <<rkind, rpc, task, hdr, todo, doneq, consumed, winner, rfiles, late, firstOk, rcause>>

qvars == <<queue, connected, vcur, nvc, vch, meCh, playing, ended, sched, files, made, notes, st, enqLog, handed>>

\* What the actions of one part leave alone: the variables of the other parts.
notQ == <<rvars, mvars, gvars, ovars>>
notR == <<qvars, mvars, gvars, ovars>>
notW == <<qvars, rvars, mvars, gvars, svars, tvars, cvars>>
notS == <<qvars, rvars, mvars, gvars, wvars, tvars>>
notT == <<qvars, rvars, mvars, gvars, wvars, svars, cvars>>

\* ------------------------------------------------------- entry builders
\* build_audio_entry: delete_after_play is set exactly for a path outside
\* SAVED_WAV_DIR.  Paths are abstracted to the directory they lie in.
Paths == {"saved", "temp"}

build_audio_entry(i, wav_path) ==
  [id |-> i, file_path |-> wav_path, delete_after_play |-> (wav_path # "saved")]

build_audio_entry_from_bytes(i) ==
  [id |-> i, file_path |-> "none", delete_after_play |-> FALSE]

\* The file clips a caller may pass to enqueue, built from a path in ps.
Entries(i, ps) == {build_audio_entry(i, p) : p \in ps}

\* ------------------------------------------------------ transport reads
is_connected(h) == h # NoVC /\ connected[h]

is_playing(h) == playing[h] # NoItem

\* Nothing in the repository calls VoiceClient.pause().
is_paused(h) == FALSE

IdsOf(q) == {q[k].id : k \in 1..Len(q)}

\* queue.clear(): every entry still queued is dropped without being played.
clear(q, t) == [i \in ItemIds |-> IF i \in IdsOf(q) THEN "discarded" ELSE t[i]]

\* ------------------------------------------------- guild_tts_manager.play
\* Mutant: the rejected entry is put back at the head of the queue and retried.
play_raised_retry(h, item, q, s, t) ==
  /\ queue' = q
  /\ st' = [t EXCEPT ![item.id] = "rejected"]
  /\ sched' = [s EXCEPT ![h] = @ + 1]
  /\ UNCHANGED playing

\* The except branch of play: the entry is already popped; the next play is
\* scheduled on the loop.
play_raised(h, item, q, s, t) ==
  /\ queue' = Tail(q)
  /\ st' = [t EXCEPT ![item.id] = "rejected"]
  /\ sched' = [s EXCEPT ![h] = @ + 1]
  /\ UNCHANGED playing

\* voice_client.play accepted the entry: its player thread runs.
play_started(h, item, q, s, t) ==
  /\ queue' = Tail(q)
  /\ st' = [t EXCEPT ![item.id] = "playing"]
  /\ sched' = s
  /\ playing' = [playing EXCEPT ![h] = item]

\* The guards of play that return before popleft.
play_guard(h, q) ==
  IF ~is_connected(h) THEN "clear"
  ELSE IF q = <<>> THEN "return"
  ELSE IF is_playing(h) \/ is_paused(h) THEN "return"
  ELSE "pop"

\* self.play(h, queue), entered with the queue holding q, the pending schedules
\* s and the entry history t.
play(h, q, s, t) ==
  LET g == play_guard(h, q) IN
  IF g = "clear" THEN
       /\ queue' = <<>>
       /\ st' = clear(q, t)
       /\ sched' = s
       /\ UNCHANGED <<playing, handed>>
  ELSE IF g = "return" THEN
       /\ queue' = q
       /\ st' = t
       /\ sched' = s
       /\ UNCHANGED <<playing, handed>>
  ELSE LET item == Head(q) IN
       /\ handed' = Append(handed, [id |-> item.id, vc |-> h])
       /\ \E raises \in BOOLEAN :
            IF raises THEN play_raised(h, item, q, s, t)
                      ELSE play_started(h, item, q, s, t)

\* ---------------------------------------------- guild_tts_manager.enqueue
\* Mutant: the idle test of enqueue is inverted, so an idle handle never starts.
enqueue_starts_inverted(h) == is_playing(h) \/ is_paused(h)

enqueue_starts(h) == (~is_playing(h)) /\ (~is_paused(h))

\* enqueue(h, guild, entry).  The caller created the entry's file, if it has one.
enqueue(h, entry) ==
  IF ~is_connected(h) THEN
       /\ st' = [st EXCEPT ![entry.id] = "refused"]
       /\ UNCHANGED <<queue, sched, playing, handed, enqLog>>
  ELSE /\ enqLog' = Append(enqLog, [id |-> entry.id, vc |-> h])
       /\ IF enqueue_starts(h)
            THEN play(h, Append(queue, entry), sched, [st EXCEPT ![entry.id] = "queued"])
            ELSE /\ queue' = Append(queue, entry)
                 /\ st' = [st EXCEPT ![entry.id] = "queued"]
                 /\ UNCHANGED <<sched, playing, handed>>

NextId == Cardinality({i \in ItemIds : made[i] # NoItem}) + 1

EnqueueOf(ps) ==
  /\ NextId <= MaxItems
  /\ \E h \in 1..nvc : \E entry \in Entries(NextId, ps) :
       /\ enqueue(h, entry)
       /\ files' = IF entry.file_path # "none" THEN files \cup {entry.id} ELSE files
       /\ made' = [made EXCEPT ![entry.id] = entry]
       /\ notes' = [notes EXCEPT ![entry.id] = "clip"]
  /\ UNCHANGED <<connected, vcur, nvc, vch, meCh, ended>>
  /\ UNCHANGED notQ

\* The manager's interface: a clip from any directory.
Enqueue == EnqueueOf(Paths)

\* The clips main.py enqueues all lie in SAVED_WAV_DIR.
EnqueueSaved == EnqueueOf({"saved"})

\* A play scheduled with call_soon_threadsafe runs on the event loop.
RunScheduledPlay ==
  \E h \in 1..nvc :
    /\ sched[h] > 0
    /\ play(h, queue, [sched EXCEPT ![h] = @ - 1], st)
  /\ UNCHANGED <<connected, vcur, nvc, vch, meCh, ended, files, made, notes, enqLog>>
  /\ UNCHANGED notQ

\* --------------------------------------------------- the player thread
\* The player of h stops (source exhausted, send error, stop()): from here
\* h.is_playing() is false; the after callback runs later on the same thread.
player_stops(h) ==
  /\ ended' = ended \cup {[vc |-> h, item |-> playing[h]]}
  /\ playing' = [playing EXCEPT ![h] = NoItem]
  /\ st' = [st EXCEPT ![playing[h].id] = "ended"]

StreamEnds ==
  /\ \E h \in 1..nvc :
       /\ is_playing(h)
       /\ player_stops(h)
  /\ UNCHANGED <<queue, connected, vcur, nvc, vch, meCh, sched, files, made, notes, enqLog, handed>>
  /\ UNCHANGED notQ

\* os.remove(file_path) in after_playing.
after_remove(item, f) ==
  IF item.delete_after_play /\ item.file_path # "none" /\ item.id \in f
    THEN f \ {item.id} ELSE f

\* after_playing(err) of entry e.item, played through e.vc; err is only printed.
after_playing(e, err) ==
  /\ files' = after_remove(e.item, files)
  /\ ended' = ended \ {e}
  /\ IF ~is_connected(e.vc)
       THEN /\ queue' = <<>>
            /\ st' = [clear(queue, st) EXCEPT ![e.item.id] = "completed"]
            /\ UNCHANGED sched
       ELSE /\ sched' = [sched EXCEPT ![e.vc] = @ + 1]
            /\ st' = [st EXCEPT ![e.item.id] = "completed"]
            /\ UNCHANGED queue

AfterPlaying ==
  /\ \E e \in ended : \E err \in BOOLEAN : after_playing(e, err)
  /\ UNCHANGED <<connected, vcur, nvc, vch, meCh, playing, made, notes, enqLog, handed>>
  /\ UNCHANGED notQ

\* ------------------------------------------------ connection of handles
Channels == {1, 2}
NoCh == 0

\* channel.connect() returns a new VoiceClient in channel c; it raises
\* ClientException while the guild still has a voice client.
can_connect == vcur = NoVC /\ nvc < MaxVC

do_connect(c) ==
  /\ nvc' = nvc + 1
  /\ vcur' = nvc + 1
  /\ connected' = [connected EXCEPT ![nvc + 1] = TRUE]
  /\ vch' = [vch EXCEPT ![nvc + 1] = c]
  /\ meCh' = c

\* A connect flow of main.py succeeded (seen from the queue).
VoiceConnect ==
  /\ can_connect
  /\ do_connect(1)
  /\ UNCHANGED <<queue, playing, ended, sched, files, made, notes, st, enqLog, handed>>
  /\ UNCHANGED notQ

\* vc.disconnect(): the handle reports disconnected, its player is stopped and
\* the guild has no voice client any more.
do_disconnect(h) ==
  /\ connected' = [connected EXCEPT ![h] = FALSE]
  /\ vcur' = IF vcur = h THEN NoVC ELSE vcur
  /\ meCh' = IF vcur = h THEN NoCh ELSE meCh
  /\ IF is_playing(h) THEN player_stops(h)
                      ELSE UNCHANGED <<playing, ended, st>>

\* A disconnect flow of main.py ran (seen from the queue).
VoiceDisconnect ==
  /\ vcur # NoVC
  /\ do_disconnect(vcur)
  /\ UNCHANGED <<queue, nvc, vch, sched, files, made, notes, enqLog, handed>>
  /\ UNCHANGED notQ

\* ======================================================= synthesis race
\* generate_wav_bytes (two servers, result in memory) and generate_wav (one
\* server, result in a file) share one shape: a task per server, a loop over
\* asyncio.as_completed with FIRST_REPLY_TIMEOUT, cancel of the rest in finally.
Servers == {1, 2}
NoServer == 0

\* servers = [...] of each race.
ServersOf(kind) == IF kind = "bytes" THEN {1, 2} ELSE {1}

\* What wave.open reads from a response: not a WAV at all, or a header.
SampleRates == {48000, 44100}
ChannelCounts == {1, 2, 3}
SampleWidths == {1, 2}
NotWav == [wav |-> FALSE, sr |-> 0, ch |-> 0, sw |-> 0]
NoHdr == [wav |-> FALSE, sr |-> -1, ch |-> -1, sw |-> -1]
Headers ==
  {[wav |-> TRUE, sr |-> a, ch |-> b, sw |-> c] :
      a \in SampleRates, b \in ChannelCounts, c \in SampleWidths} \cup {NotWav}

DISCORD_SR == 48000
DISCORD_CH == 2
DISCORD_SW == 2

is_discord_wav(sr, ch, sw) == sr = DISCORD_SR /\ ch = DISCORD_CH /\ sw = DISCORD_SW

\* Mutant: the channel count of the response is not looked at.
bytes_accepts_any_channels(h) == h.wav /\ ~(h.sr # 48000 \/ h.sw # 2)

\* generate_wav_bytes_from_server: probe_wav_bytes raises on a non-WAV, then
\* the format test; any exception makes the task return None.
bytes_accepts(h) ==
  h.wav /\ ~(h.sr # 48000 \/ h.sw # 2 \/ h.ch \notin {1, 2})

\* generate_wav_from_server._do_one: probe_wav raises on a non-WAV, then
\* is_discord_wav; any exception makes the task remove the file and return None.
file_accepts(h) == h.wav /\ is_discord_wav(h.sr, h.ch, h.sw)

accepts(kind, h) == IF kind = "bytes" THEN bytes_accepts(h) ELSE file_accepts(h)

InFlight == {"query", "synth"}
Done == {"ok", "failed"}

\* generate_wav_bytes / generate_wav up to the first await of the loop.
RaceStart ==
  /\ rpc = "idle"
  /\ \E kind \in {"bytes", "file"} :
       /\ rkind' = kind
       /\ task' = [s \in Servers |-> IF s \in ServersOf(kind) THEN "query" ELSE "none"]
       /\ todo' = ServersOf(kind)
  /\ rpc' = "waiting"
  /\ UNCHANGED <<hdr, doneq, consumed, winner, rfiles, late, firstOk, rcause>>
  /\ UNCHANGED notR

\* as_completed._on_completion: a finished task is queued unless the timeout
\* has emptied todo.
on_completion(s) ==
  IF s \in todo THEN todo' = todo \ {s} /\ doneq' = Append(doneq, s)
               ELSE UNCHANGED <<todo, doneq>>

\* The audio_query request of task s ends: with a parameter document, or with
\* an error or its timeout (the task returns None).
QueryAnswer ==
  /\ \E s \in Servers : \E ok \in BOOLEAN :
       /\ task[s] = "query"
       /\ IF ok THEN task' = [task EXCEPT ![s] = "synth"] /\ UNCHANGED <<todo, doneq>>
               ELSE task' = [task EXCEPT ![s] = "failed"] /\ on_completion(s)
  /\ UNCHANGED <<rkind, rpc, hdr, consumed, winner, rfiles, late, firstOk, rcause>>
  /\ UNCHANGED notR

\* The task's verdict on a synthesis response with header h.
task_result(kind, h) == IF accepts(kind, h) THEN "ok" ELSE "failed"

\* The synthesis request of task s ends with an error or its timeout.
SynthError ==
  /\ \E s \in Servers :
       /\ task[s] = "synth"
       /\ task' = [task EXCEPT ![s] = "failed"]
       /\ on_completion(s)
  /\ UNCHANGED <<rkind, rpc, hdr, consumed, winner, rfiles, late, firstOk, rcause>>
  /\ UNCHANGED notR

\* The synthesis request of task s returns bytes with header h: the file race
\* writes them to its path and removes the path again if they are refused.
SynthAnswer ==
  /\ \E s \in Servers : \E h \in Headers :
       /\ task[s] = "synth"
       /\ hdr' = [hdr EXCEPT ![s] = h]
       /\ task' = [task EXCEPT ![s] = task_result(rkind, h)]
       /\ rfiles' = IF rkind = "file" /\ task_result(rkind, h) = "ok"
                      THEN rfiles \cup {s} ELSE rfiles
       /\ firstOk' = IF firstOk = NoServer /\ task_result(rkind, h) = "ok" THEN s ELSE firstOk
       /\ on_completion(s)
  /\ UNCHANGED <<rkind, rpc, consumed, winner, late, rcause>>
  /\ UNCHANGED notR

\* as_completed._on_timeout after FIRST_REPLY_TIMEOUT: one dummy per task still
\* awaited; the handle is cancelled once todo is empty.
RaceTimeout ==
  /\ rpc = "waiting"
  /\ todo # {}
  /\ doneq' = doneq \o [k \in 1..Cardinality(todo) |-> NoServer]
  /\ todo' = {}
  /\ rcause' = "timeout"
  /\ UNCHANGED <<rkind, rpc, task, hdr, consumed, winner, rfiles, late, firstOk>>
  /\ UNCHANGED notR

\* Mutant: the finally clause cancels nothing.
cancel_rest_none(t) == t

\* The finally clause: cancel every task that is not done; generate_wav also
\* removes every path that is not the winner's.
cancel_rest(t) == [s \in Servers |-> IF t[s] \in InFlight THEN "cancelled" ELSE t[s]]

finally_files(kind, w, f) == IF kind = "file" THEN f \cap {w} ELSE f

\* Mutant: the loop gives up at the first completion, whatever its result.
loop_ends_at_first(won, k, n) == TRUE

\* The for loop ends at a break (a winner) or after one iteration per task.
loop_ends(won, k, n) == won \/ k = n

\* The loop takes result x of one completion: TRUE when it ends the race.
is_winner(kind, x, f) ==
  /\ x # NoServer
  /\ task[x] = "ok"
  /\ kind = "file" => x \in f

\* One iteration of "for coro in as_completed(...)": a dummy raises
\* TimeoutError, which the inner except swallows like a failed task.
RaceConsume ==
  /\ rpc = "waiting"
  /\ doneq # <<>>
  /\ LET x == Head(doneq)
         n == Cardinality(ServersOf(rkind))
         won == is_winner(rkind, x, rfiles)
         last == loop_ends(won, consumed + 1, n)
     IN /\ doneq' = Tail(doneq)
        /\ consumed' = consumed + 1
        /\ winner' = IF won THEN x ELSE winner
        /\ IF last
             THEN /\ rpc' = "returned"
                  /\ task' = cancel_rest(task)
                  /\ rfiles' = finally_files(rkind, IF won THEN x ELSE NoServer, rfiles)
                  /\ rcause' = IF won THEN "winner"
                               ELSE IF rcause = "timeout" THEN "timeout" ELSE "allfailed"
             ELSE UNCHANGED <<rpc, task, rfiles, rcause>>
  /\ UNCHANGED <<rkind, hdr, todo, late, firstOk>>
  /\ UNCHANGED notR

\* The backend of a cancelled task answers: nobody is waiting for the answer.
LateAnswer ==
  /\ \E s \in Servers :
       /\ task[s] = "cancelled"
       /\ s \notin late
       /\ late' = late \cup {s}
  /\ UNCHANGED <<rkind, rpc, task, hdr, todo, doneq, consumed, winner, rfiles, firstOk, rcause>>
  /\ UNCHANGED notR

\* ============================================================ on_message
\* Messages are numbered in the order the gateway delivers them; discord.py
\* runs each on_message call as a task of its own.
Msgs == 1..MaxMsgs

\* on_message up to "await generate_wav_bytes": a text message in the bot's
\* channel.  Without a voice client the handler returns at once.
MsgArrive ==
  /\ \E m \in Msgs :
       /\ mpc[m] = "none"
       /\ \A k \in Msgs : k < m => mpc[k] # "none"
       /\ mvc' = [mvc EXCEPT ![m] = vcur]
       /\ mpc' = [mpc EXCEPT ![m] = IF vcur = NoVC THEN "done" ELSE "synth"]
  /\ UNCHANGED <<mitem, qvars, rvars, gvars, ovars>>

\* generate_wav_bytes returned to the handler of m: bytes, or None.  With bytes
\* the handler enqueues them through the vc it read on arrival.
MsgSynthDone ==
  /\ NextId <= MaxItems
  /\ \E m \in Msgs : \E wav_bytes \in BOOLEAN :
       /\ mpc[m] = "synth"
       /\ mpc' = [mpc EXCEPT ![m] = "done"]
       /\ IF wav_bytes
            THEN /\ enqueue(mvc[m], build_audio_entry_from_bytes(NextId))
                 /\ made' = [made EXCEPT ![NextId] = build_audio_entry_from_bytes(NextId)]
                 /\ notes' = [notes EXCEPT ![NextId] = "message"]
                 /\ mitem' = [mitem EXCEPT ![m] = NextId]
            ELSE UNCHANGED <<queue, sched, playing, handed, enqLog, st, made, notes, mitem>>
  /\ UNCHANGED <<connected, vcur, nvc, vch, meCh, ended, files, mvc, rvars, gvars, ovars>>

\* --------------------------------------------------------- specification
\* ================================================================ voice guard
\* Handlers of main.py that change the guild's voice connection.  Each handler
\* is a task of the event loop; a step of the model runs one handler from one
\* await to the next.
Procs == 1..MaxProcs
Users == 1..MaxUsers
NoProc == 0

\* retries of safe_connect: range(retries + 1) attempts.
Retries == 2

RestartFlows == {"vsu_ghost", "vr_restart"}
Flows == RestartFlows \cup
         {"vr_ghost", "vr_move", "vr_fresh", "vjoin", "vleave",
          "vsu_join", "vsu_move", "vsu_vacate"}

\* Awaits during which a handler is clearing the server-side voice state,
\* connecting, or disconnecting.
DropPcs == {"rv_drop", "conn_drop", "vj_drop", "vl_drop", "vr_g_drop"}
DiscPcs == {"rv_disc", "vl_disc", "vv_disc", "vr_g_vacate"}
ConnPcs == {"conn"}
MutatingPcs == DropPcs \cup DiscPcs \cup ConnPcs
SleepPcs == {"rv_sleep", "conn_sleep", "vj_sleep", "vr_g_sleep"}
SendPcs == {"vl_defer", "vl_send", "vj_send", "vj_fail_send", "vr_g_send"}

\* ghost = vc is None and me_vs and me_vs.channel is not None
ghost == vcur = NoVC /\ meCh # NoCh

\* min(1 * (2 ** step), 30), in seconds.
DELAY_CAP == 30
STEP_CAP == 5
COOLDOWN_S == 120
TickS == 60

Min(a, b) == IF a <= b THEN a ELSE b

\* Mutant: the delay is not capped.
delay_of_uncapped(step) == 2 ^ step

delay_of(step) == Min(1 * (2 ^ step), DELAY_CAP)

next_step(step) == Min(step + 1, STEP_CAP)

\* The delays of consecutive restarts that start from step 0.
ExpectedDelays == <<1, 2, 4, 8, 16, 30, 30>>

\* The head of restart_voice's locked block: the delay is computed from the
\* stored step, and the step is advanced.
backoff_begin ==
  /\ lastDelay' = delay_of(backoff)
  /\ backoff' = next_step(backoff)
  /\ nrest' = Min(nrest + 1, Len(ExpectedDelays))
  /\ lastAttempt' = now

\* The finally clause of restart_voice: a _cooldown task is created.
cooldown_spawn(f) ==
  IF f \in RestartFlows THEN cool \cup {now + COOLDOWN_S \div TickS} ELSE cool

setp0(p, f, pc, vc, ch, u, a) ==
  /\ pflow' = [pflow EXCEPT ![p] = f]
  /\ ppc' = [ppc EXCEPT ![p] = pc]
  /\ pvc' = [pvc EXCEPT ![p] = vc]
  /\ pch' = [pch EXCEPT ![p] = ch]
  /\ puser' = [puser EXCEPT ![p] = u]
  /\ patt' = [patt EXCEPT ![p] = a]

\* The handler moves on inside its own code; no restart begins or ends.
setp(p, f, pc, vc, ch, u, a) ==
  /\ setp0(p, f, pc, vc, ch, u, a)
  /\ UNCHANGED bvars

\* The handler returns (or its except clause has sent the failure message).
finish(p) ==
  /\ setp0(p, "none", "idle", NoVC, NoCh, NoCh, 0)
  /\ cool' = cooldown_spawn(pflow[p])
  /\ UNCHANGED <<backoff, lastDelay, nrest, lastAttempt>>

goto(p, pc) == /\ ppc' = [ppc EXCEPT ![p] = pc]
               /\ UNCHANGED <<pflow, pvc, pch, puser, patt, bvars>>

\* Leaving "async with lock".
release(p) == lock' = IF lock = p THEN NoProc ELSE lock

\* me_vs.channel read through the VoiceState object the handler fetched: None
\* when there was no object, else what the server reports now.
me_live(ch) == IF ch # NoCh THEN meCh ELSE NoCh

\* The first await inside "async with lock" of flow f, "idle" if the body
\* returns without awaiting.
body_pc(f, vc, ch, u) ==
  IF f \in RestartFlows THEN (IF is_connected(vc) THEN "rv_disc" ELSE "rv_drop")
  ELSE IF f = "vjoin" THEN
         (IF is_connected(vc)
            THEN (IF vch[vc] # ch THEN "conn" ELSE "vj_send")
            ELSE "vj_drop")
  ELSE IF f = "vleave" THEN
         (IF is_connected(vc) THEN "vl_disc"
          ELSE IF me_live(ch) # NoCh THEN "vl_drop" ELSE "vl_send")
  ELSE IF f = "vsu_vacate" THEN "vv_disc"
  ELSE "conn"

\* restart_voice computes ch under the lock, from the vc it read before it.
body_ch(f, vc, ch) ==
  IF f \in RestartFlows THEN (IF vc # NoVC THEN vch[vc] ELSE meCh)
  ELSE IF f = "vleave" THEN NoCh
  ELSE ch

\* Locals the flow still reads after the await it is suspended at: vc by a
\* pending disconnect, user_ch by the ghost branch of /vrestart.
body_vc(pc, vc) == IF pc \in DiscPcs THEN vc ELSE NoVC

body_user(f, pc, u) == IF f = "vr_ghost" THEN u ELSE NoCh

\* The body of "async with lock" up to its first await.
body(p, f, vc, ch, u) ==
  LET pc == body_pc(f, vc, ch, u) IN
  /\ lock' = IF pc = "vj_send" THEN NoProc ELSE p
  /\ setp0(p, f, pc, body_vc(pc, vc), body_ch(f, vc, ch), body_user(f, pc, u), 0)
  /\ IF f \in RestartFlows THEN backoff_begin
                            ELSE UNCHANGED <<backoff, lastDelay, nrest, lastAttempt>>
  /\ UNCHANGED cool

\* asyncio.Lock.acquire: taken at once when free and nobody waits, else the
\* task is suspended.
lock_free == lock = NoProc /\ \A q \in Procs : ppc[q] # "lock"

enter(p, f, vc, ch, u) ==
  IF lock_free THEN body(p, f, vc, ch, u)
               ELSE /\ setp(p, f, "lock", vc, ch, u, 0)
                    /\ UNCHANGED lock

\* ------------------------------------------------------- handler entries
\* on_voice_state_update up to its first await on the connection.
Events == {"join", "move", "leave"}

StartPresenceIn(evs, chs) ==
  /\ \E p \in Procs : \E ev \in evs :
     \E c \in chs : \E empty \in BOOLEAN :
       /\ ppc[p] = "idle"
       /\ IF ghost THEN enter(p, "vsu_ghost", vcur, NoCh, NoCh)
          ELSE IF vcur = NoVC
            THEN /\ ev \in {"join", "move"}
                 /\ enter(p, IF ev = "join" THEN "vsu_join" ELSE "vsu_move",
                          NoVC, c, NoCh)
            ELSE /\ empty
                 /\ enter(p, "vsu_vacate", vcur, NoCh, NoCh)
  /\ UNCHANGED <<clip, now, loc, qvars, rvars, mvars, ovars>>

StartPresence == StartPresenceIn(Events, Channels)

\* vrestart_command after defer.
StartVrestartIn(chs) ==
  /\ \E p \in Procs : \E user_ch \in chs \cup {NoCh} :
       /\ ppc[p] = "idle"
       /\ IF ghost
            THEN /\ setp(p, "vr_ghost", "vr_g_drop", NoVC,
                         IF user_ch # NoCh THEN user_ch ELSE meCh, user_ch, 0)
                 /\ UNCHANGED lock
          ELSE IF is_connected(vcur)
            THEN IF user_ch # NoCh /\ vch[vcur] # user_ch
                   THEN enter(p, "vr_move", vcur, user_ch, NoCh)
                   ELSE enter(p, "vr_restart", vcur, NoCh, NoCh)
          ELSE /\ user_ch # NoCh
               /\ setp(p, "vr_fresh", "conn", NoVC, user_ch, NoCh, 0)
               /\ UNCHANGED lock
  /\ UNCHANGED <<clip, now, loc, qvars, rvars, mvars, ovars>>

StartVrestart == StartVrestartIn(Channels)

\* join_command after defer.
StartVjoinIn(chs) ==
  /\ \E p \in Procs : \E target_ch \in chs :
       /\ ppc[p] = "idle"
       /\ enter(p, "vjoin", vcur, target_ch, NoCh)
  /\ UNCHANGED <<clip, now, loc, qvars, rvars, mvars, ovars>>

StartVjoin == StartVjoinIn(Channels)

\* leave_command up to its defer: vc, me_vs and user_vs are read before it.
StartVleaveIn(chs) ==
  /\ \E p \in Procs : \E user_vs \in chs \cup {NoCh} :
       /\ ppc[p] = "idle"
       /\ setp(p, "vleave", "vl_defer", vcur, meCh, user_vs, 0)
  /\ UNCHANGED lock
  /\ UNCHANGED <<clip, now, loc, qvars, rvars, mvars, ovars>>

StartVleave == StartVleaveIn(Channels)

\* The same handlers in a guild whose members all use one voice channel.
Home == {1}
PresenceHome == StartPresenceIn(Events, Home)
VrestartHome == StartVrestartIn(Home)
VjoinHome == StartVjoinIn(Home)
VleaveHome == StartVleaveIn(Home)

\* Presence events of members who leave voice.
PresenceLeave == StartPresenceIn({"leave"}, Home)

\* A handler suspended in lock.acquire() gets the lock.
Acquire ==
  /\ \E p \in Procs :
       /\ ppc[p] = "lock"
       /\ lock = NoProc
       /\ body(p, pflow[p], pvc[p], pch[p], puser[p])
  /\ UNCHANGED <<clip, now, loc, qvars, rvars, mvars, ovars>>

\* ------------------------------------------------- steps between awaits
\* guild.change_voice_state(channel=None) returned or raised (the exception is
\* only printed).  When it went through, the server drops the bot's voice state
\* and a live handle is disconnected by the library.
force_drop_voice(ok) ==
  IF ok /\ vcur # NoVC THEN do_disconnect(vcur)
  ELSE /\ meCh' = IF ok THEN NoCh ELSE meCh
       /\ UNCHANGED <<connected, vcur, playing, ended, st>>

after_drop(pc) ==
  CASE pc = "rv_drop" -> "rv_sleep"
    [] pc = "conn_drop" -> "conn_sleep"
    [] pc = "vj_drop" -> "vj_sleep"
    [] pc = "vl_drop" -> "vl_send"
    [] pc = "vr_g_drop" -> "vr_g_sleep"

ForceDropDone ==
  /\ \E p \in Procs : \E ok \in BOOLEAN :
       /\ ppc[p] \in DropPcs
       /\ force_drop_voice(ok)
       /\ goto(p, after_drop(ppc[p]))
  /\ UNCHANGED <<lock, queue, nvc, vch, sched, files, made, notes, enqLog, handed>>
  /\ UNCHANGED <<clip, now, loc, rvars, mvars, ovars>>

\* vc.disconnect() returned (after its force=True retry where the code has one).
DisconnectDone ==
  /\ \E p \in Procs :
       /\ ppc[p] \in DiscPcs
       /\ do_disconnect(pvc[p])
       /\ IF ppc[p] = "rv_disc"
            THEN /\ setp(p, pflow[p], "rv_sleep", NoVC, pch[p], NoCh, 0)
                 /\ UNCHANGED lock
          ELSE IF ppc[p] = "vl_disc"
            THEN /\ setp(p, pflow[p], "vl_send", NoVC, NoCh, NoCh, 0)
                 /\ UNCHANGED lock
          ELSE finish(p) /\ release(p)
  /\ UNCHANGED <<queue, nvc, vch, sched, files, made, notes, enqLog, handed>>
  /\ UNCHANGED <<clip, now, loc, rvars, mvars, ovars>>

\* asyncio.sleep returned.
Wake ==
  /\ \E p \in Procs :
       /\ ppc[p] \in SleepPcs
       /\ CASE ppc[p] = "rv_sleep" ->
                 IF pch[p] # NoCh THEN goto(p, "conn") /\ UNCHANGED lock
                                  ELSE finish(p) /\ release(p)
            [] ppc[p] = "conn_sleep" ->
                 IF patt[p] < Retries
                   THEN /\ ppc' = [ppc EXCEPT ![p] = "conn"]
                        /\ patt' = [patt EXCEPT ![p] = @ + 1]
                        /\ UNCHANGED <<lock, pflow, pvc, pch, puser, bvars>>
                   ELSE finish(p) /\ release(p)
            [] ppc[p] = "vj_sleep" -> goto(p, "conn") /\ UNCHANGED lock
            [] ppc[p] = "vr_g_sleep" ->
                 enter(p, "vr_ghost", pvc[p], pch[p], puser[p])
  /\ UNCHANGED <<clip, now, loc, qvars, rvars, mvars, ovars>>

\* What a handler may find when it lists the non-bot members of channel c: the
\* members the model tracks, or, where it does not track them, either answer.
nobody(L, c) == \A u \in Users : L[u] # c
observed(tracked, c) == IF tracked THEN {nobody(loc, c)} ELSE BOOLEAN

\* The bot's own voice-state event, dispatched while channel.connect() is
\* completing: on_voice_state_update sees the new handle in the event's channel
\* and goes to its last lines; handler q leaves the channel if it has no members.
own_event(p, q, c) ==
  /\ q # p /\ ppc[q] = "idle"
  /\ ppc' = [ppc EXCEPT ![p] = "connected",
                        ![q] = IF lock_free THEN "vv_disc" ELSE "lock"]
  /\ pflow' = [pflow EXCEPT ![q] = "vsu_vacate"]
  /\ pvc' = [pvc EXCEPT ![q] = nvc + 1]
  /\ lock' = IF lock_free THEN q ELSE lock
  /\ UNCHANGED <<pch, puser, patt, bvars>>

\* wait_for(channel.connect(), timeout) returned a handle, or raised
\* TimeoutError or ClientException (always ClientException while the guild has
\* a voice client).  oks: whether the gateway answers in time.  own: the bot's
\* own voice-state event is handled here; otherwise it is one of the presence
\* events of the environment.
ConnectDoneOf(own, oks) ==
  /\ \E p \in Procs : \E ok \in oks :
       /\ ppc[p] \in ConnPcs
       /\ IF ok /\ can_connect
            THEN /\ do_connect(pch[p])
                 /\ IF own /\ nobody(loc, pch[p])
                      THEN \E q \in Procs : own_event(p, q, pch[p])
                      ELSE goto(p, "connected") /\ UNCHANGED lock
            ELSE /\ goto(p, "conn_drop")
                 /\ UNCHANGED <<lock, connected, vcur, nvc, vch, meCh>>
  /\ UNCHANGED <<queue, playing, ended, sched, files, made, notes, st, enqLog, handed>>
  /\ UNCHANGED <<clip, now, loc, rvars, mvars, ovars>>

ConnectDone == ConnectDoneOf(FALSE, BOOLEAN)

\* tts_manager.enqueue(guild.voice_client, guild, build_audio_entry(bot_join.wav)),
\* with the clip on disk.
announce ==
  LET entry == build_audio_entry(NextId, "saved") IN
  /\ enqueue(vcur, entry)
  /\ made' = [made EXCEPT ![entry.id] = entry]
  /\ files' = files \cup {entry.id}
  /\ notes' = [notes EXCEPT ![entry.id] = "bot_join"]

no_announce == UNCHANGED <<queue, sched, playing, handed, enqLog, st, made, files, notes>>

\* vc.channel of guild.voice_client.
cur_ch == IF vcur # NoVC THEN vch[vcur] ELSE NoCh

\* Mutant: the last lines never find the channel empty.
vacates_never(empty) == FALSE

vacates(empty) == vcur # NoVC /\ empty

\* The last lines of on_voice_state_update: leave a channel without members.
\* The handler holds the lock iff held.
tail(p, empty, held) ==
  IF vacates(empty)
    THEN IF held /\ \E q \in Procs : ppc[q] = "lock"
           THEN /\ setp(p, "vsu_vacate", "lock", vcur, NoCh, NoCh, 0)
                /\ release(p)
         ELSE IF held \/ lock_free
           THEN /\ setp(p, "vsu_vacate", "vv_disc", vcur, NoCh, NoCh, 0)
                /\ lock' = p
         ELSE /\ setp(p, "vsu_vacate", "lock", vcur, NoCh, NoCh, 0)
              /\ UNCHANGED lock
    ELSE finish(p) /\ release(p)

\* safe_connect returned its handle to the flow, which leaves the lock.  Without
\* the clip build_audio_entry raises: join_command catches it and replies with
\* a failure, on_voice_state_update is left by the exception.
ConnectResumeOf(tracked) ==
  /\ \E p \in Procs :
       /\ ppc[p] = "connected"
       /\ CASE pflow[p] = "vsu_join" ->
                 /\ clip => NextId <= MaxItems
                 /\ IF clip THEN announce /\ finish(p)
                            ELSE no_announce /\ goto(p, "raised")
                 /\ release(p)
            [] pflow[p] = "vsu_move" ->
                 /\ clip => NextId <= MaxItems
                 /\ IF clip
                      THEN /\ announce
                           /\ \E empty \in observed(tracked, cur_ch) : tail(p, empty, TRUE)
                      ELSE no_announce /\ goto(p, "raised") /\ release(p)
            [] pflow[p] = "vjoin" ->
                 /\ no_announce
                 /\ goto(p, "vj_send") /\ release(p)
            [] pflow[p] = "vr_ghost" ->
                 /\ no_announce
                 /\ goto(p, "vr_g_send") /\ release(p)
            [] OTHER ->
                 /\ no_announce
                 /\ finish(p) /\ release(p)
  /\ UNCHANGED <<connected, vcur, nvc, vch, meCh, ended>>
  /\ UNCHANGED <<clip, now, loc, rvars, mvars, ovars>>

ConnectResume == ConnectResumeOf(FALSE)

\* interaction.response.defer / followup.send / channel.send returned.
SendDoneOf(tracked) ==
  /\ \E p \in Procs :
       /\ ppc[p] \in SendPcs
       /\ CASE ppc[p] = "vl_defer" ->
                 /\ no_announce
                 /\ IF me_live(pch[p]) # NoCh /\ puser[p] # meCh
                      THEN finish(p) /\ UNCHANGED lock
                      ELSE enter(p, "vleave", pvc[p], pch[p], puser[p])
            [] ppc[p] \in {"vl_send", "vj_fail_send"} ->
                 /\ no_announce
                 /\ finish(p) /\ release(p)
            [] ppc[p] = "vj_send" ->
                 /\ clip => NextId <= MaxItems
                 /\ IF clip THEN announce /\ finish(p)
                            ELSE no_announce /\ goto(p, "vj_fail_send")
                 /\ UNCHANGED lock
            [] ppc[p] = "vr_g_send" ->
                 /\ no_announce
                 /\ \E empty \in observed(tracked, pch[p]) :
                      IF puser[p] = NoCh /\ empty /\ vcur # NoVC
                        THEN setp(p, "vr_ghost", "vr_g_vacate", vcur, pch[p], puser[p], 0)
                        ELSE finish(p)
                 /\ UNCHANGED lock
  /\ UNCHANGED <<connected, vcur, nvc, vch, meCh, ended>>
  /\ UNCHANGED <<clip, now, loc, rvars, mvars, ovars>>

SendDone == SendDoneOf(FALSE)

\* The exception that left on_voice_state_update has been logged by the library.
HandlerError ==
  /\ \E p \in Procs :
       /\ ppc[p] = "raised"
       /\ finish(p)
  /\ UNCHANGED <<lock, clip, now, loc, qvars, rvars, mvars, ovars>>

\* ------------------------------------------------------ presence events
\* The branch on_voice_state_update takes before its first await, for an event
\* ev of a member (bot or not) with before.channel b and after.channel a.
vsu_branch(ev, bot, b, a) ==
  IF ghost THEN "restart"
  ELSE IF ev = "move" THEN
         (IF vcur # NoVC
            THEN (IF a = vch[vcur] THEN (IF bot THEN "tail" ELSE "note_movein")
                  ELSE IF b = vch[vcur] THEN (IF bot THEN "tail" ELSE "note_moveout")
                  ELSE "tail")
            ELSE "connect_move")
  ELSE IF ev = "join" THEN
         (IF vcur # NoVC
            THEN (IF a # vch[vcur] THEN "return"
                  ELSE IF bot THEN "tail" ELSE "note_join")
            ELSE "connect_join")
  ELSE IF vcur = NoVC \/ bot THEN "return"
  ELSE IF b # vch[vcur] THEN "return"
  ELSE "leave_check"

\* Notifications enqueued in one run of the presence model.
MaxNotes == 1

NoteFlows == {"note_join", "note_movein", "note_leave", "note_last"}

\* What the notification of a flow says: "last_leave" is the leave notification
\* for the member whose departure emptied the bot's channel.
note_kind(f) ==
  CASE f \in {"note_join", "note_movein"} -> "join"
    [] f = "note_leave" -> "leave"
    [] f = "note_last" -> "last_leave"

can_note ==
  /\ NextId <= MaxItems
  /\ Cardinality({i \in ItemIds : notes[i] \in {"join", "leave", "last_leave"}}) < MaxNotes

\* tts_manager.enqueue(h, guild, build_audio_entry(wav_path)) of a notification.
note_enqueue(h, f) ==
  LET entry == build_audio_entry(NextId, "saved") IN
  /\ enqueue(h, entry)
  /\ made' = [made EXCEPT ![entry.id] = entry]
  /\ files' = files \cup {entry.id}
  /\ notes' = [notes EXCEPT ![entry.id] = note_kind(f)]

\* generate_notification_wav and what follows it.  cached: the clip of this
\* member exists, so the call returns without suspending; otherwise the handler
\* awaits generate_wav.  L lists the members after the event.
note(p, f, L, cached) ==
  IF cached
    THEN /\ note_enqueue(vcur, f)
         /\ tail(p, nobody(L, cur_ch), FALSE)
    ELSE /\ setp(p, f, "vn_synth", vcur, NoCh, NoCh, 0)
         /\ UNCHANGED lock
         /\ no_announce

\* on_voice_state_update(member, before, after) up to its first await.
vsu(p, ev, bot, b, a, L, cached) ==
  LET br == vsu_branch(ev, bot, b, a) IN
  CASE br = "restart" -> enter(p, "vsu_ghost", vcur, NoCh, NoCh) /\ no_announce
    [] br = "connect_join" -> enter(p, "vsu_join", NoVC, a, NoCh) /\ no_announce
    [] br = "connect_move" -> enter(p, "vsu_move", NoVC, a, NoCh) /\ no_announce
    [] br = "return" -> finish(p) /\ UNCHANGED lock /\ no_announce
    [] br = "tail" -> tail(p, nobody(L, cur_ch), FALSE) /\ no_announce
    [] br = "leave_check" ->
         IF nobody(L, b)
           THEN enter(p, "vsu_vacate", vcur, NoCh, NoCh) /\ no_announce
           ELSE note(p, "note_leave", L, cached)
    [] br = "note_moveout" ->
         note(p, IF nobody(L, b) THEN "note_last" ELSE "note_leave", L, cached)
    [] br = "note_movein" -> note(p, "note_movein", L, cached)
    [] br = "note_join" -> note(p, "note_join", L, cached)

event_of(b, a) == IF b = NoCh THEN "join" ELSE IF a = NoCh THEN "leave" ELSE "move"

\* A non-bot member joins, leaves or changes its voice channel, and the event
\* is handled up to the handler's first await.
MemberEventIn(users, chs) ==
  /\ \E p \in Procs : \E u \in users : \E a \in chs \cup {NoCh} :
     \E cached \in BOOLEAN :
       /\ ppc[p] = "idle"
       /\ a # loc[u]
       /\ cached => can_note
       /\ vsu_branch(event_of(loc[u], a), FALSE, loc[u], a)
            \in {"connect_join", "connect_move"} => nvc < MaxVC
       /\ loc' = [loc EXCEPT ![u] = a]
       /\ vsu(p, event_of(loc[u], a), FALSE, loc[u], a, [loc EXCEPT ![u] = a], cached)
  /\ UNCHANGED <<connected, vcur, nvc, vch, meCh, ended>>
  /\ UNCHANGED <<clip, now, rvars, mvars, ovars>>

MemberEvent == MemberEventIn(Users, Channels)

\* generate_notification_wav returned the clip's path, or None.
NotifyDone ==
  /\ \E p \in Procs : \E wav_path \in BOOLEAN :
       /\ ppc[p] = "vn_synth"
       /\ wav_path => can_note
       /\ IF wav_path
            THEN note_enqueue(IF pflow[p] = "note_join" THEN vcur ELSE pvc[p], pflow[p])
            ELSE no_announce
       /\ tail(p, nobody(loc, cur_ch), FALSE)
  /\ UNCHANGED <<connected, vcur, nvc, vch, meCh, ended>>
  /\ UNCHANGED <<clip, now, loc, rvars, mvars, ovars>>

\* ========================================================= PCM sources
\* BytesWavPCMSource and WavPCMSource: read() hands the player one frame of
\* FRAME_BYTES bytes per call and b'' at the end.

\* FRAME_SAMPLES is 960 in main.py; the model reads frames of this many samples.
FRAME_SAMPLES == 2
CHANNELS == 2
BYTES_PER_SAMPLE == 2
FRAME_BYTES == FRAME_SAMPLES * CHANNELS * BYTES_PER_SAMPLE

\* Longest data chunk and the byte values in it.
MaxData == 10
MaxReads == 5
Bytes == {0, 1}
DataChunks == UNION {[1..n -> Bytes] : n \in 0..MaxData}

\* __init__: the header tests of the two classes.
source_accepts(kind, h) ==
  /\ h.wav
  /\ h.sr = 48000
  /\ h.sw = 2
  /\ IF kind = "bytes" THEN h.ch \in {1, 2} ELSE h.ch = 2

\* wave.readframes(n): the next n frames of ch * sampwidth bytes each, fewer at
\* the end of the data chunk.
readframes(n) ==
  LET want == n * wch * BYTES_PER_SAMPLE
      stop == IF wpos + want < Len(wdata) THEN wpos + want ELSE Len(wdata)
  IN  SubSeq(wdata, wpos + 1, stop)

zeros(n) == [k \in 1..n |-> 0]

\* Mutant: a short last frame gets a whole frame of zeros appended.
pad_whole_frame(raw, n) == IF Len(raw) < n THEN raw \o zeros(n) ELSE raw

\* raw += b'\x00' * (n - len(raw))
pad(raw, n) == IF Len(raw) < n THEN raw \o zeros(n - Len(raw)) ELSE raw

\* Mutant: the sample is written into the left slot only.
upmix_left_only(raw) ==
  [k \in 1..FRAME_BYTES |->
     IF (k - 1) % 4 < 2 THEN raw[2 * ((k - 1) \div 4) + ((k - 1) % 2) + 1] ELSE 0]

\* The loop over range(FRAME_SAMPLES): out[4i:4i+2] = out[4i+2:4i+4] = in[2i:2i+2].
RECURSIVE upmix_loop(_, _, _)
upmix_loop(raw, out, i) ==
  IF i = FRAME_SAMPLES THEN out
  ELSE upmix_loop(raw,
         [out EXCEPT ![4 * i + 1] = raw[2 * i + 1], ![4 * i + 2] = raw[2 * i + 2],
                     ![4 * i + 3] = raw[2 * i + 1], ![4 * i + 4] = raw[2 * i + 2]],
         i + 1)

upmix(raw) == upmix_loop(raw, zeros(FRAME_BYTES), 0)

\* The value read() returns, given what readframes returned.
frame_of(raw) ==
  IF wch = 2 THEN pad(raw, FRAME_BYTES)
             ELSE upmix(pad(raw, FRAME_SAMPLES * BYTES_PER_SAMPLE))

\* The constructor opens a WAV whose header it accepts.
Open ==
  /\ wsrc = "none"
  /\ \E kind \in {"bytes", "file"} : \E h \in Headers : \E d \in DataChunks :
       /\ source_accepts(kind, h)
       /\ wsrc' = kind
       /\ wch' = h.ch
       /\ wdata' = d
  /\ UNCHANGED <<wpos, padded_last, outs>>
  /\ UNCHANGED notW

\* read() of either class.
Read ==
  /\ wsrc # "none"
  /\ Len(outs) < MaxReads
  /\ LET raw == readframes(FRAME_SAMPLES)
         short == IF wch = 2 THEN Len(raw) < FRAME_BYTES
                             ELSE Len(raw) < FRAME_SAMPLES * BYTES_PER_SAMPLE
     IN  IF padded_last
           THEN /\ outs' = Append(outs, <<>>)
                /\ UNCHANGED <<wpos, padded_last>>
         ELSE IF raw = <<>>
           THEN /\ outs' = Append(outs, <<>>)
                /\ UNCHANGED <<wpos, padded_last>>
         ELSE /\ outs' = Append(outs, frame_of(raw))
              /\ wpos' = wpos + Len(raw)
              /\ padded_last' = (padded_last \/ short)
  /\ UNCHANGED <<wsrc, wch, wdata>>
  /\ UNCHANGED notW

\* ======================================================= voice profiles
\* user_voice_mapping, its file voice_mapping.yaml and the debounced save.
VoiceIds == {1, 2}
Names == {"a", "b"}
Absent == [kind |-> "absent", voice_id |-> 0, display_name |-> ""]

\* A record written by an older version: the bare voice id.
Legacy(v) == [kind |-> "int", voice_id |-> v, display_name |-> ""]

\* {'voice_id': v, 'display_name': n}
Structured(v, n) == [kind |-> "dict", voice_id |-> v, display_name |-> n]

Records ==
  {Absent} \cup {Legacy(v) : v \in VoiceIds}
           \cup {Structured(v, n) : v \in VoiceIds, n \in Names}
EmptyMapping == [u \in Users |-> Absent]
Mappings == [Users -> Records]

\* What the file can be when it is opened.
NoFile == [kind |-> "missing", map |-> EmptyMapping]
Files ==
  {[kind |-> k, map |-> EmptyMapping] : k \in {"missing", "unreadable", "unparsable", "empty"}}
    \cup {[kind |-> "yaml", map |-> m] : m \in Mappings \ {EmptyMapping}}

\* load_voice_mapping() raises: open() on a file that cannot be read, or
\* yaml.safe_load on one that cannot be parsed.
load_raises(f) == f.kind \in {"unreadable", "unparsable"}

\* The mapping load_voice_mapping() leaves in memory: {} for a missing file and
\* for an empty document (safe_load returns None).
load_result(f) == IF f.kind = "yaml" THEN f.map ELSE EmptyMapping

\* yaml.safe_dump(user_voice_mapping, f): the document holds every record.
safe_dump(m) ==
  IF m = EmptyMapping THEN [kind |-> "empty", map |-> EmptyMapping]
                      ELSE [kind |-> "yaml", map |-> m]

\* load_voice_mapping() at import.
Load ==
  /\ boot = "import"
  /\ \E f \in Files :
       /\ voice_file' = f
       /\ IF load_raises(f)
            THEN boot' = "aborted" /\ UNCHANGED user_voice_mapping
            ELSE boot' = "up" /\ user_voice_mapping' = load_result(f)
  /\ UNCHANGED <<save_pending, later, wcount, werr, perr>>
  /\ UNCHANGED cvars
  /\ UNCHANGED notS

\* Mutant: the save is never scheduled.
save_not_scheduled(running_loop) ==
  UNCHANGED <<save_pending, later, wcount, voice_file, werr>>

\* save_voice_mapping_debounced(): nothing while a save is pending; else the
\* flag is set and _later() is scheduled, or, without a running loop, the file
\* is written at once (and the flag stays set).
save_voice_mapping_debounced(running_loop) ==
  IF save_pending
    THEN UNCHANGED <<save_pending, later, wcount, voice_file, werr>>
    ELSE /\ save_pending' = TRUE
         /\ IF running_loop
              THEN /\ later' = TRUE
                   /\ wcount' = 0
                   /\ UNCHANGED <<voice_file, werr>>
              ELSE /\ voice_file' = safe_dump(user_voice_mapping')
                   /\ wcount' = 1
                   /\ UNCHANGED <<later, werr>>

no_save == UNCHANGED <<save_pending, later, wcount, voice_file, werr>>

\* _later(): the sleep is over; the file is written, or open() raises; the flag
\* is cleared in the finally clause without another await.
LaterFires ==
  /\ later
  /\ \E ok \in BOOLEAN :
       IF ok THEN /\ voice_file' = safe_dump(user_voice_mapping)
                  /\ wcount' = wcount + 1
                  /\ UNCHANGED werr
             ELSE /\ werr' = TRUE
                  /\ UNCHANGED <<voice_file, wcount>>
  /\ later' = FALSE
  /\ save_pending' = FALSE
  /\ UNCHANGED <<boot, user_voice_mapping, perr>>
  /\ UNCHANGED cvars
  /\ UNCHANGED notS

\* get_voice_for_user(user_id, display_name), called by on_message.
GetVoice ==
  /\ boot = "up"
  /\ \E u \in Users : \E n \in Names : \E v \in VoiceIds :
       LET user_data == user_voice_mapping[u] IN
       IF user_data.kind = "dict"
         THEN UNCHANGED user_voice_mapping /\ no_save
       ELSE IF user_data.kind = "int"
         THEN /\ user_voice_mapping' =
                   [user_voice_mapping EXCEPT ![u] = Structured(user_data.voice_id, n)]
              /\ save_voice_mapping_debounced(TRUE)
         ELSE /\ user_voice_mapping' = [user_voice_mapping EXCEPT ![u] = Structured(v, n)]
              /\ save_voice_mapping_debounced(TRUE)
  /\ UNCHANGED <<boot, perr>>
  /\ UNCHANGED cvars
  /\ UNCHANGED notS

\* The saved clip of action a for user u speaks another name than n.
made_from_other(a, u, n) == clips[a][u] # n

NotifyActions == {"join", "leave"}

\* generate_notification_wav(action, user) with the synthesis it awaits:
\* rec.get raises AttributeError when rec is an int.  tracked: the saved clips
\* are followed; otherwise the clip file may or may not exist.
NotifyIn(tracked) ==
  /\ boot = "up"
  /\ \E a \in NotifyActions : \E u \in Users : \E n \in Names : \E v \in VoiceIds :
     \E exists \in (IF tracked THEN {clips[a][u] # ""} ELSE BOOLEAN) :
     \E temp_wav \in BOOLEAN :
       LET rec == user_voice_mapping[u]
           same == rec.kind = "dict" /\ rec.display_name = n
           hit == (rec.kind = "absent" \/ same) /\ exists
       IN
       /\ IF rec.kind = "absent"
            THEN /\ user_voice_mapping' = [user_voice_mapping EXCEPT ![u] = Structured(v, n)]
                 /\ save_voice_mapping_debounced(TRUE)
                 /\ UNCHANGED perr
          ELSE IF rec.kind = "int"
            THEN /\ perr' = "generate_notification_wav"
                 /\ UNCHANGED user_voice_mapping /\ no_save
          ELSE IF rec.display_name # n
            THEN /\ user_voice_mapping' =
                      [user_voice_mapping EXCEPT ![u] = Structured(rec.voice_id, n)]
                 /\ save_voice_mapping_debounced(TRUE)
                 /\ UNCHANGED perr
            ELSE UNCHANGED <<user_voice_mapping, perr>> /\ no_save
       /\ IF ~tracked \/ rec.kind = "int" THEN UNCHANGED cvars
          ELSE IF hit
            THEN /\ stale' = (stale \/ made_from_other(a, u, n))
                 /\ UNCHANGED clips
          ELSE /\ clips' = IF temp_wav THEN [clips EXCEPT ![a][u] = n] ELSE clips
               /\ UNCHANGED stale
  /\ UNCHANGED boot
  /\ UNCHANGED <<qvars, rvars, mvars, gvars, wvars, tvars>>

NotifyLookup == NotifyIn(FALSE)

Notify == NotifyIn(TRUE)

\* /list_voices: user_data.get('voice_id') raises AttributeError when the
\* record is an int.
ListVoices ==
  /\ boot = "up"
  /\ \E u \in Users :
       IF user_voice_mapping[u].kind = "int"
         THEN perr' = "list_voices_command"
         ELSE UNCHANGED perr
  /\ UNCHANGED <<boot, voice_file, user_voice_mapping, save_pending, later, wcount, werr>>
  /\ UNCHANGED cvars
  /\ UNCHANGED notS

\* /set_voice with a valid voice id.
SetVoice ==
  /\ boot = "up"
  /\ \E u \in Users : \E n \in Names : \E v \in VoiceIds :
       /\ user_voice_mapping' = [user_voice_mapping EXCEPT ![u] = Structured(v, n)]
       /\ save_voice_mapping_debounced(TRUE)
  /\ UNCHANGED <<boot, perr>>
  /\ UNCHANGED cvars
  /\ UNCHANGED notS

\* ======================================================= request timing
\* One backend request (audio_query, then synthesis) of each task of a race,
\* with the clocks that bound it.
PER_REQUEST_TIMEOUT == 10
FIRST_REPLY_TIMEOUT == 10

\* The clock advances in steps of TickSecs seconds up to MaxReqTime.
TickSecs == 4
MaxReqTime == 24

in_flight(s) == qpc[s] \in {"query", "synth"}

\* aiohttp.ClientTimeout(total=PER_REQUEST_TIMEOUT) of the POST in progress.
step_due(s) == qnow - qbegin[s] >= PER_REQUEST_TIMEOUT

\* asyncio.wait_for(_do_one(), timeout=PER_REQUEST_TIMEOUT) of
\* generate_wav_from_server; generate_wav_bytes_from_server has no such bound.
\* The request begins when the race creates its task, at time 0.
request_due(kind, s) == kind = "file" /\ qnow >= PER_REQUEST_TIMEOUT

\* Mutant: the race waits for its tasks without a timeout.
race_due_never == FALSE

\* asyncio.as_completed(tasks, timeout=FIRST_REPLY_TIMEOUT), armed when the
\* race creates its tasks.
race_due == qnow >= FIRST_REPLY_TIMEOUT

\* generate_wav_bytes / generate_wav create their tasks.
ReqStart ==
  /\ qkind = "none"
  /\ \E kind \in {"bytes", "file"} :
       /\ qkind' = kind
       /\ qpc' = [s \in Servers |-> IF s \in ServersOf(kind) THEN "query" ELSE "none"]
  /\ UNCHANGED <<qnow, qbegin, qquery, qend>>
  /\ UNCHANGED notT

\* A step of a request ends in time: audio_query answers and the synthesis POST
\* is sent, or synthesis answers and the task returns its result; or the step
\* ends with an HTTP error.
ReqAnswer ==
  /\ ~race_due
  /\ \E s \in Servers : \E ok \in BOOLEAN :
       /\ in_flight(s)
       /\ ~step_due(s) /\ ~request_due(qkind, s)
       /\ IF ~ok
            THEN /\ qpc' = [qpc EXCEPT ![s] = "failed"]
                 /\ qend' = [qend EXCEPT ![s] = qnow]
                 /\ UNCHANGED <<qbegin, qquery>>
          ELSE IF qpc[s] = "query"
            THEN /\ qpc' = [qpc EXCEPT ![s] = "synth"]
                 /\ qquery' = [qquery EXCEPT ![s] = qnow - qbegin[s]]
                 /\ qbegin' = [qbegin EXCEPT ![s] = qnow]
                 /\ UNCHANGED qend
            ELSE /\ qpc' = [qpc EXCEPT ![s] = "ok"]
                 /\ qend' = [qend EXCEPT ![s] = qnow]
                 /\ UNCHANGED <<qbegin, qquery>>
  /\ UNCHANGED <<qkind, qnow>>
  /\ UNCHANGED notT

\* The timeout of the POST in progress, or of wait_for, expires: the task
\* returns None.
ReqTimeout ==
  /\ \E s \in Servers :
       /\ in_flight(s)
       /\ step_due(s) \/ request_due(qkind, s)
       /\ qpc' = [qpc EXCEPT ![s] = "failed"]
       /\ qend' = [qend EXCEPT ![s] = qnow]
  /\ UNCHANGED <<qkind, qnow, qbegin, qquery>>
  /\ UNCHANGED notT

\* The race ends: a task returned a result, every task failed, or the timeout
\* of as_completed expired; the finally clause cancels the tasks not done.
ReqRaceEnds ==
  /\ \E s \in Servers : in_flight(s)
  /\ \/ \E s \in Servers : qpc[s] = "ok"
     \/ race_due
  /\ qpc' = [s \in Servers |-> IF in_flight(s) THEN "cancelled" ELSE qpc[s]]
  /\ qend' = [s \in Servers |-> IF in_flight(s) THEN qnow ELSE qend[s]]
  /\ UNCHANGED <<qkind, qnow, qbegin, qquery>>
  /\ UNCHANGED notT

\* Time passes while no timeout is due.
ReqTick ==
  /\ qkind # "none"
  /\ qnow < MaxReqTime
  /\ \A s \in Servers : in_flight(s) =>
        ~(step_due(s) \/ request_due(qkind, s) \/ race_due)
  /\ qnow' = qnow + TickSecs
  /\ UNCHANGED <<qkind, qpc, qbegin, qquery, qend>>
  /\ UNCHANGED notT

\* ------------------------------------------------------- the environment
\* The voice connection of the current handle breaks.
VoiceDrop ==
  /\ is_connected(vcur)
  /\ connected' = [connected EXCEPT ![vcur] = FALSE]
  /\ UNCHANGED <<queue, vcur, nvc, vch, meCh, playing, ended, sched, files, made, notes, st, enqLog, handed>>
  /\ UNCHANGED notQ

\* The library gives the broken handle up while the server still lists the bot
\* in the channel: the ghost state.
HandleLost ==
  /\ vcur # NoVC /\ ~connected[vcur]
  /\ vcur' = NoVC
  /\ UNCHANGED <<queue, connected, nvc, vch, meCh, playing, ended, sched, files, made, notes, st, enqLog, handed>>
  /\ UNCHANGED notQ

\* --------------------------------------------------------------- time
MaxTime == 3       \* ticks of the clock in one behaviour

\* TickS seconds pass; a _cooldown task whose sleep is over runs first.
Tick ==
  /\ now < MaxTime
  /\ \A d \in cool : d > now
  /\ now' = now + 1
  /\ UNCHANGED <<lock, pflow, ppc, pvc, pch, puser, patt, clip, loc, bvars>>
  /\ UNCHANGED <<qvars, rvars, mvars, ovars>>

\* A _cooldown task wakes from asyncio.sleep(120) and stores step 0.
CooldownFires ==
  /\ \E d \in cool :
       /\ d <= now
       /\ cool' = cool \ {d}
  /\ backoff' = 0
  /\ nrest' = 0
  /\ UNCHANGED <<lock, pflow, ppc, pvc, pch, puser, patt, clip, now, loc, lastDelay, lastAttempt>>
  /\ UNCHANGED <<qvars, rvars, mvars, ovars>>

\* ================================================================ specifications
vars == <<qvars, rvars, mvars, gvars, ovars>>

InitRace ==
  /\ rkind = "bytes"
  /\ rpc = "idle"
  /\ task = [s \in Servers |-> "none"]
  /\ hdr = [s \in Servers |-> NoHdr]
  /\ todo = {}
  /\ doneq = <<>>
  /\ consumed = 0
  /\ winner = NoServer
  /\ rfiles = {}
  /\ late = {}
  /\ firstOk = NoServer
  /\ rcause = "none"

InitMsg ==
  /\ mpc = [m \in Msgs |-> "none"]
  /\ mvc = [m \in Msgs |-> NoVC]
  /\ mitem = [m \in Msgs |-> 0]

InitGuard0 ==
  /\ lock = NoProc
  /\ pflow = [p \in Procs |-> "none"]
  /\ ppc = [p \in Procs |-> "idle"]
  /\ pvc = [p \in Procs |-> NoVC]
  /\ pch = [p \in Procs |-> NoCh]
  /\ puser = [p \in Procs |-> NoCh]
  /\ patt = [p \in Procs |-> 0]
  /\ backoff = 0
  /\ cool = {}
  /\ now = 0
  /\ lastDelay = 0
  /\ nrest = 0
  /\ lastAttempt = 0
  /\ loc = [u \in Users |-> NoCh]

\* bot_join.wav is missing from the working directory.
InitGuard == InitGuard0 /\ clip = FALSE

InitQueue ==
  /\ queue = <<>>
  /\ connected = [h \in VCs |-> FALSE]
  /\ vcur = NoVC
  /\ nvc = 0
  /\ vch = [h \in VCs |-> NoCh]
  /\ meCh = NoCh
  /\ notes = [i \in ItemIds |-> "none"]
  /\ playing = [h \in VCs |-> NoItem]
  /\ ended = {}
  /\ sched = [h \in VCs |-> 0]
  /\ files = {}
  /\ made = [i \in ItemIds |-> NoItem]
  /\ st = [i \in ItemIds |-> "none"]
  /\ enqLog = <<>>
  /\ handed = <<>>

\* No source is open.
InitSource ==
  /\ wsrc = "none"
  /\ wch = 0
  /\ wdata = <<>>
  /\ wpos = 0
  /\ padded_last = FALSE
  /\ outs = <<>>

\* main.py is being imported: load_voice_mapping() has not run yet.
InitStore ==
  /\ boot = "import"
  /\ voice_file = NoFile
  /\ user_voice_mapping = EmptyMapping
  /\ save_pending = FALSE
  /\ later = FALSE
  /\ wcount = 0
  /\ werr = FALSE
  /\ perr = "none"

\* No race has created its tasks.
InitRequest ==
  /\ qkind = "none"
  /\ qnow = 0
  /\ qpc = [s \in Servers |-> "none"]
  /\ qbegin = [s \in Servers |-> 0]
  /\ qquery = [s \in Servers |-> 0]
  /\ qend = [s \in Servers |-> 0]

\* SAVED_WAV_DIR holds no notification clip.
InitClips ==
  /\ clips = [a \in NotifyActions |-> [u \in Users |-> ""]]
  /\ stale = FALSE

InitOther == InitSource /\ InitStore /\ InitRequest /\ InitClips

Init == InitRace /\ InitMsg /\ InitGuard /\ InitQueue /\ InitOther

\* bot_join.wav is where the repository ships it.
InitClip == InitRace /\ InitMsg /\ InitGuard0 /\ clip = TRUE /\ InitQueue /\ InitOther

QueueNext ==
  \/ Enqueue
  \/ RunScheduledPlay
  \/ StreamEnds
  \/ AfterPlaying
  \/ VoiceConnect
  \/ VoiceDisconnect

Next == QueueNext

Spec == Init /\ [][Next]_vars

RaceNext ==
  \/ RaceStart
  \/ QueryAnswer
  \/ SynthError
  \/ SynthAnswer
  \/ RaceTimeout
  \/ RaceConsume
  \/ LateAnswer

NextRace == RaceNext

NextMsg ==
  \/ MsgArrive
  \/ MsgSynthDone
  \/ RunScheduledPlay
  \/ StreamEnds
  \/ AfterPlaying
  \/ VoiceConnect
  \/ VoiceDisconnect

\* Text messages read aloud through the guild's queue.
SpecMsg == Init /\ [][NextMsg]_vars

\* One run of a synthesis race.
SpecRace == Init /\ [][NextRace]_vars

\* Fair scheduling of the queue: a callback handed to call_soon_threadsafe is run
\* by the loop, a player thread reaches the end of its source, and its after
\* callback is then called.  Enqueues and (dis)connects are the environment's.
NextLive ==
  \/ EnqueueSaved
  \/ RunScheduledPlay
  \/ StreamEnds
  \/ AfterPlaying
  \/ VoiceConnect
  \/ VoiceDisconnect

SpecLive ==
  /\ Init /\ [][NextLive]_vars
  /\ WF_vars(RunScheduledPlay) /\ WF_vars(StreamEnds) /\ WF_vars(AfterPlaying)

\* The handlers that change the voice connection, running concurrently, in a
\* guild with one voice channel.
NextGuard ==
  \/ PresenceHome
  \/ VrestartHome
  \/ VjoinHome
  \/ VleaveHome
  \/ Acquire
  \/ ForceDropDone
  \/ DisconnectDone
  \/ Wake
  \/ ConnectDone
  \/ ConnectResume
  \/ SendDone
  \/ HandlerError
  \/ VoiceDrop
  \/ HandleLost

SpecGuard == Init /\ [][NextGuard]_vars

\* Restarts of a flapping connection over time: members leave, the connection
\* breaks and comes back, the clock advances and cooldowns fire.
NextBackoff ==
  \/ PresenceLeave
  \/ Acquire
  \/ ForceDropDone
  \/ DisconnectDone
  \/ Wake
  \/ ConnectDone
  \/ ConnectResume
  \/ VoiceConnect
  \/ VoiceDrop
  \/ HandleLost
  \/ Tick
  \/ CooldownFires

SpecBackoff == Init /\ [][NextBackoff]_vars

\* A source is opened and read to its end and beyond.
NextSource ==
  \/ Open
  \/ Read

SpecSource == Init /\ [][NextSource]_vars

\* Members are announced under their current display names.
NextClips ==
  \/ Load
  \/ Notify
  \/ LaterFires

SpecClips == Init /\ [][NextClips]_vars

\* The requests of one race against the clock.
NextRequest ==
  \/ ReqStart
  \/ ReqAnswer
  \/ ReqTimeout
  \/ ReqRaceEnds
  \/ ReqTick

SpecRequest == Init /\ [][NextRequest]_vars

\* The profile file is loaded, profiles are read and changed, saves run.
NextStore ==
  \/ Load
  \/ GetVoice
  \/ NotifyLookup
  \/ ListVoices
  \/ SetVoice
  \/ LaterFires

SpecStore == Init /\ [][NextStore]_vars

\* Members come and go; the presence handler connects, announces and vacates.
NextPresence ==
  \/ MemberEvent
  \/ NotifyDone
  \/ Acquire
  \/ ForceDropDone
  \/ DisconnectDone
  \/ Wake
  \/ ConnectDoneOf(TRUE, {TRUE})
  \/ ConnectResumeOf(TRUE)

SpecPresence == InitClip /\ [][NextPresence]_vars

\* ================================================================ claims
HandedIds == {handed[k].id : k \in 1..Len(handed)}
Pos(i) == CHOOSE k \in 1..Len(handed) : handed[k].id = i
EnqVia(i) == (CHOOSE k \in 1..Len(enqLog) : enqLog[k].id = i)
Terminal == {"completed", "rejected", "discarded"}

\* C1: within the guild's queue playback is FIFO and strictly sequential: at
\* most one entry is playing, entries are handed to voice_client.play in the
\* order they were enqueued, and no entry is handed to voice_client.play while
\* an earlier entry is still playing or still waits for its after_playing.
C1_FifoSequential ==
  /\ Cardinality({h \in VCs : is_playing(h)}) <= 1
  /\ \A k, l \in 1..Len(handed) : k < l => handed[k].id < handed[l].id
  /\ \A k, l \in 1..Len(handed) :
       k < l => st[handed[k].id] \notin {"playing", "ended"}

\* C4: the cleanup of an entry with delete_after_play (removing its file) has
\* run once the entry has left the queue for good: played to completion,
\* rejected by voice_client.play, or dropped by queue.clear().
C4_CleanupOnEveryExit ==
  \A i \in ItemIds :
    (made[i].delete_after_play /\ st[i] \in Terminal) => i \notin files

\* C5: an enqueue through a disconnected handle never reaches
\* voice_client.play or the queue, and an entry handed to voice_client.play
\* was enqueued through the same connection (nothing queued before a
\* disconnect is played after the reconnect).
C5_NoStaleAfterReconnect ==
  /\ \A i \in ItemIds : st[i] = "refused" => i \notin HandedIds \cup IdsOf(queue)
  /\ \A k \in 1..Len(handed) : handed[k].vc = enqLog[EnqVia(handed[k].id)].vc

\* C6: a step in which voice_client.play raises leaves the rejected entry out
\* of the queue with the queue advanced past it and a play scheduled on the
\* handle; a rejected entry is never queued or handed to play again.
C6_RejectedNotRetried ==
  [][\A i \in ItemIds :
       /\ (st[i] # "rejected" /\ st'[i] = "rejected") =>
             /\ i \notin IdsOf(queue')
             /\ \A k \in 1..Len(queue') : queue'[k].id > i
             /\ handed'[Len(handed')].id = i
             /\ sched'[handed'[Len(handed')].vc] >= 1
       /\ st[i] = "rejected" =>
             /\ st'[i] = "rejected"
             /\ i \notin IdsOf(queue')
             /\ Len(handed') > Len(handed) => handed'[Len(handed')].id > i
    ]_vars

\* C6 witness: the second entry was rejected by voice_client.play after the
\* first had played, and the third entry is playing.
C6_Witness ==
  st[1] = "completed" /\ st[2] = "rejected" /\ st[3] = "playing"

\* C2: every entry enqueued through a handle is eventually handed to
\* voice_client.play unless that handle disconnects, every entry is handed at
\* most once and in enqueue order, and the queue drains.
C2_AllPlayedInOrder ==
  /\ [](\A k, l \in 1..Len(handed) : k < l => handed[k].id < handed[l].id)
  /\ \A i \in ItemIds :
       (st[i] = "queued") ~> (i \in HandedIds \/ \E h \in VCs : h <= nvc /\ ~connected[h])
  /\ (queue # <<>>) ~> (queue = <<>>)

\* C2 witness: three entries went through one connected handle, all were
\* handed to voice_client.play and the queue is empty.
C2_Witness ==
  /\ Len(handed) = 3 /\ queue = <<>>
  /\ \A k \in 1..3 : handed[k].vc = 1 /\ connected[1]
  /\ \A i \in 1..3 : st[i] = "completed"

\* ---------------------------------------------------------------- race
\* The value generate_wav_bytes / generate_wav returns, as the caller sees it.
Returned == IF winner = NoServer THEN "None" ELSE "wav"

\* C7: once the race has returned no task is left in flight (each is done or
\* cancelled); the value returned is that of the first task that completed
\* with a valid result, unless the timeout came first; a cancelled task is not
\* the winner and has left neither a result nor a file; and after the return
\* neither the returned value nor the files change, whatever a backend answers.
C7_FirstValidWinsRestCancelled ==
  /\ [](rpc = "returned" =>
          /\ \A s \in Servers : task[s] \notin InFlight
          /\ winner = firstOk \/ (rcause = "timeout" /\ winner = NoServer)
          /\ \A s \in Servers :
               task[s] = "cancelled" => winner # s /\ s \notin rfiles /\ hdr[s] = NoHdr)
  /\ [][rpc = "returned" => rpc' = "returned" /\ winner' = winner /\ rfiles' = rfiles /\ hdr' = hdr]_vars

\* C7 witness: server 2 won, the task of server 1 was cancelled in flight and
\* its backend answered afterwards.
C7_Witness ==
  rpc = "returned" /\ winner = 2 /\ task[1] = "cancelled" /\ 1 \in late

\* C8 as claimed: the race returns Timeout after the overall timeout and
\* AllFailed when every backend failed, two distinct results.
C8_TimeoutAllFailedDistinct ==
  rpc = "returned" =>
    /\ rcause = "timeout" => Returned = "Timeout"
    /\ rcause = "allfailed" => Returned = "AllFailed"

\* C8 amended: the race returns None both when the overall timeout elapses
\* before a valid result and when every backend has failed; it returns None
\* for no other reason, and a task is cancelled only after a winner or the
\* timeout, never because another backend failed.
C8_NoneOnTimeoutOrAllFailed ==
  /\ rpc = "returned" =>
       /\ (winner = NoServer) <=> (rcause \in {"timeout", "allfailed"})
       /\ rcause = "allfailed" => \A s \in ServersOf(rkind) : task[s] = "failed"
       /\ rcause = "winner" => task[winner] = "ok"
  /\ (\E s \in Servers : task[s] = "cancelled") => rcause \in {"winner", "timeout"}
  /\ (rpc = "waiting" /\ rcause # "timeout") =>
        \A s \in ServersOf(rkind) : task[s] \in InFlight \cup Done

\* C8 witness: one backend failed, the race went on waiting for the other and
\* ended by the timeout.
C8_Witness ==
  rpc = "returned" /\ rcause = "timeout" /\ Returned = "None"
    /\ task[1] = "failed" /\ task[2] = "cancelled"

\* The validity predicate as the claim states it.
ClaimedValid(h) == h.wav /\ h.sr = 48000 /\ h.sw = 2 /\ h.ch \in {1, 2}

\* C9 as claimed: in either race a response is accepted exactly when it is a
\* 48 kHz 16-bit WAV of 1 or 2 channels, and a returned value is such a WAV.
C9_ValidIffMonoOrStereo ==
  /\ \A s \in Servers : hdr[s] # NoHdr => ((task[s] = "ok") <=> ClaimedValid(hdr[s]))
  /\ winner # NoServer => ClaimedValid(hdr[winner])

\* C9 amended: generate_wav_bytes accepts exactly the 48 kHz 16-bit WAVs of 1
\* or 2 channels; generate_wav accepts exactly those of 2 channels; a returned
\* value was accepted, and a refused response makes its task fail.
C9_ValidPerRace ==
  /\ \A s \in Servers : hdr[s] # NoHdr =>
        /\ (task[s] = "ok") <=> (ClaimedValid(hdr[s]) /\ (rkind = "file" => hdr[s].ch = 2))
        /\ task[s] \in Done
  /\ winner # NoServer =>
        ClaimedValid(hdr[winner]) /\ (rkind = "file" => hdr[winner].ch = 2)

\* C9 witness: the bytes race returned a mono response and had refused a
\* 3-channel one.
C9_Witness ==
  rkind = "bytes" /\ rpc = "returned" /\ winner = 2 /\ hdr[2].ch = 1
    /\ task[1] = "failed" /\ hdr[1].wav /\ hdr[1].ch = 3

\* ----------------------------------------------------------- on_message
\* C3: the audio of an earlier message is enqueued, and handed to
\* voice_client.play, before the audio of any later message.
C3_ArrivalOrder ==
  \A m1, m2 \in Msgs :
    (m1 < m2 /\ mitem[m1] \in IdsOf(enqLog) /\ mitem[m2] \in IdsOf(enqLog))
       => mitem[m1] < mitem[m2]

\* C10: every flow that force-clears the server-side voice state, connects or
\* disconnects does so while it holds the guild's lock, so at most one
\* handler is changing the guild's connection state at any moment.
C10_ConnectionChangesUnderLock ==
  /\ \A p \in Procs : ppc[p] \in MutatingPcs => lock = p
  /\ Cardinality({p \in Procs : ppc[p] \in MutatingPcs}) <= 1

\* C11: the backoff step is always an integer in [0,5]; the delay of a restart
\* is min(2^step, 30) and never exceeds 30; consecutive restarts with no reset
\* in between use the delays 1, 2, 4, 8, 16, 30, 30, ...
C11_BackoffDelays ==
  /\ backoff \in 0..STEP_CAP
  /\ lastDelay <= DELAY_CAP
  /\ nrest >= 1 => lastDelay = ExpectedDelays[nrest]

\* Seven restarts in a row without a reset: the delay has stayed at 30.
C11_Witness == nrest = 7 /\ lastDelay = 30 /\ backoff = STEP_CAP

\* C12: the step is reset to 0 only when 120 seconds have passed since the
\* guild's last restart attempt: an attempt made less than 120 s before a
\* pending reset postpones it.
C12_ResetOnlyAfterQuiet ==
  [][CooldownFires => now - lastAttempt >= COOLDOWN_S \div TickS]_vars

\* C19: when the bot_join clip is absent from the saved directory, the handler
\* that would play it skips playback without an error: it is never left by
\* an exception and never replies with a failure.
C19_MissingClipIsNoError ==
  \A p \in Procs : ppc[p] \notin {"raised", "vj_fail_send"}
C14_NoLeaveNoteForLastMember ==
  \A i \in ItemIds : notes[i] # "last_leave"

\* What the k-th read() has to return for the open source: the k-th slice of the
\* data chunk, zero-padded to a whole frame (and, for mono, with each sample in
\* both channel slots).
in_frame_bytes == FRAME_SAMPLES * wch * BYTES_PER_SAMPLE
full_frames == Len(wdata) \div in_frame_bytes
remainder == Len(wdata) % in_frame_bytes
in_slice(k) ==
  LET from == (k - 1) * in_frame_bytes
      to == IF k * in_frame_bytes < Len(wdata) THEN k * in_frame_bytes ELSE Len(wdata)
  IN  SubSeq(wdata, from + 1, to) \o zeros(in_frame_bytes - (to - from))

\* C15: for a source with N full frames and a non-empty remainder, the first
\* N+1 read() calls return frames of exactly FRAME_BYTES bytes, the (N+1)-th is
\* the zero-padded remainder, and every later read() returns the empty END.
C15_FramesThenEnd ==
  (wsrc # "none" /\ remainder > 0) =>
     \A k \in 1..Len(outs) :
        IF k <= full_frames + 1
          THEN /\ Len(outs[k]) = FRAME_BYTES
               /\ wch = 2 => outs[k] = in_slice(k)
               /\ wch = 1 => \A j \in 1..FRAME_BYTES :
                     outs[k][j] = in_slice(k)[2 * ((j - 1) \div 4) + ((j - 1) % 2) + 1]
          ELSE outs[k] = <<>>

\* A source with a full frame and a remainder holding a non-zero byte was read
\* past its end twice.
C15_Witness ==
  /\ wsrc # "none" /\ remainder > 0 /\ full_frames >= 1
  /\ Len(outs) = full_frames + 3
  /\ \E j \in 1..remainder : wdata[full_frames * in_frame_bytes + j] # 0
  /\ padded_last

\* C16: for mono input every returned frame carries sample i of the (padded)
\* input frame in both channel slots: out[4i:4i+2] = out[4i+2:4i+4] = in[2i:2i+2].
C16_MonoUpmix ==
  (wsrc = "bytes" /\ wch = 1) =>
     \A k \in 1..Len(outs) : outs[k] # <<>> =>
        \A i \in 0..(FRAME_SAMPLES - 1) :
           /\ SubSeq(outs[k], 4 * i + 1, 4 * i + 2) = SubSeq(in_slice(k), 2 * i + 1, 2 * i + 2)
           /\ SubSeq(outs[k], 4 * i + 3, 4 * i + 4) = SubSeq(in_slice(k), 2 * i + 1, 2 * i + 2)

\* A mono source returned a full frame and a padded last frame, both with
\* non-zero samples.
C16_Witness ==
  /\ wsrc = "bytes" /\ wch = 1
  /\ Len(outs) = 2 /\ padded_last
  /\ Len(outs[2]) = FRAME_BYTES
  /\ \E j \in 1..FRAME_BYTES : outs[1][j] # 0
  /\ \E j \in 1..FRAME_BYTES : outs[2][j] # 0

\* C17: while a save is pending the file is not written more than once, and
\* once no save is pending (and no write has failed) exactly one write has
\* happened for the last pending period and the file holds the in-memory
\* mapping.
C17_OneWriteHoldsAll ==
  /\ wcount <= 1
  /\ (boot = "up" /\ ~save_pending /\ ~werr) =>
        /\ load_result(voice_file) = user_voice_mapping
        /\ later = FALSE

\* Both users' records were changed during one pending period and one write
\* stored them.
C17_Witness ==
  /\ boot = "up" /\ ~save_pending /\ ~werr /\ wcount = 1
  /\ voice_file.kind = "yaml"
  /\ \A u \in Users : voice_file.map[u] = Structured(2, "b")

\* C18: no operation that reads a profile raises on a bare-integer record.
C18_LegacyTolerated == perr = "none"

\* C20: load_voice_mapping() never aborts the import of main.py.
C20_LoadNeverAborts == boot # "aborted"

\* The step is a run of a completion handler: only after_playing takes an
\* entry out of the players that ended.
completion_of(e) == e \in ended /\ e \notin ended'

\* C21: every completion of a playback attempt schedules exactly one play on
\* the event loop and makes no play call itself.
C21_OnePlayPerCompletion ==
  [][\A e \in ended : completion_of(e) =>
        /\ sched' = [sched EXCEPT ![e.vc] = @ + 1]
        /\ handed' = handed /\ playing' = playing]_vars

\* C22: the completion handler, which runs on the audio thread, leaves the
\* queue as it is; the queue changes only in steps of the event loop.
C22_QueueChangesOnLoopOnly ==
  [][(\E e \in ended : completion_of(e)) => queue' = queue]_vars

\* C27: an entry dropped from the queue without being played was enqueued
\* through a handle that has been disconnected; entries of a handle that is
\* still connected are not dropped.
C27_LiveEntriesNotDiscarded ==
  \A i \in ItemIds :
    st[i] = "discarded" => ~connected[enqLog[EnqVia(i)].vc]

\* C23: a request whose two steps together took longer than
\* PER_REQUEST_TIMEOUT does not succeed.
C23_SharedBudget ==
  \A s \in Servers : qpc[s] = "ok" => qend[s] <= PER_REQUEST_TIMEOUT

\* A request was ended in its synthesis step when its two steps together had
\* used up the budget, although each step alone was within it.
C23_Witness ==
  \E s \in Servers :
    /\ qpc[s] \in {"failed", "cancelled"}
    /\ qquery[s] > 0 /\ qquery[s] < PER_REQUEST_TIMEOUT
    /\ qend[s] - qbegin[s] > 0 /\ qend[s] - qbegin[s] < PER_REQUEST_TIMEOUT
    /\ qend[s] >= PER_REQUEST_TIMEOUT

\* C24: a restart clears the old connection, then sleeps, then connects;
\* safe_connect makes at most Retries + 1 attempts, every failed attempt is
\* followed by a force-clear and a sleep before the next one, and when the last
\* attempt has failed the handler ends with the guild not connected.
C24_RestartStepsInOrder ==
  [][\A p \in Procs :
       /\ patt'[p] <= Retries
       /\ (pflow[p] \in RestartFlows /\ ppc[p] # "rv_sleep" /\ ppc'[p] = "rv_sleep")
             => ppc[p] \in {"rv_disc", "rv_drop"}
       /\ (pflow[p] \in RestartFlows /\ ppc[p] \notin {"conn", "conn_sleep"} /\ ppc'[p] = "conn")
             => ppc[p] = "rv_sleep"
       /\ (ppc[p] = "conn" /\ ppc'[p] # "conn") => ppc'[p] \in {"connected", "conn_drop"}
       /\ (ppc[p] = "conn_drop" /\ ppc'[p] # "conn_drop") => ppc'[p] = "conn_sleep"
       /\ (ppc[p] = "conn_sleep" /\ ppc'[p] = "conn") => patt'[p] = patt[p] + 1
       /\ (ppc[p] = "conn_sleep" /\ ppc'[p] = "idle") =>
             /\ patt[p] = Retries
             /\ ~is_connected(vcur')
    ]_vars

\* C25: a presence handler takes the restart flow exactly when, at the event,
\* the handle is absent or disconnected while the server still reports the bot
\* in a channel.
C25_GhostIffNoLiveHandle ==
  [][\A p \in Procs :
       (ppc[p] = "idle" /\ pflow'[p] \in {"vsu_ghost", "vsu_join", "vsu_move", "vsu_vacate"})
          => (pflow'[p] = "vsu_ghost" <=> (~is_connected(vcur) /\ meCh # NoCh))
    ]_vars

\* C28: a restart that waited for the guild lock chooses between disconnect
\* and force-clear, and the channel to rejoin, from the connection as it is
\* when it gets the lock; it does not force-clear while the guild is connected.
C28_RestartDecidesUnderLock ==
  [][\A p \in Procs :
       (pflow[p] \in RestartFlows /\ ppc[p] = "lock" /\ ppc'[p] # "lock") =>
          /\ ppc'[p] = IF is_connected(vcur) THEN "rv_disc" ELSE "rv_drop"
          /\ pch'[p] = IF vcur # NoVC THEN vch[vcur] ELSE meCh
    ]_vars

\* C26: mutations that are not in the file have a save scheduled, also after
\* a write has failed: the failed save is tried again without a new mutation.
C26_FailedSaveIsRetried ==
  (boot = "up" /\ load_result(voice_file) # user_voice_mapping) => later

\* C29: generate_notification_wav never returns a cached clip that was made
\* from another display name than the user's current one.
C29_CachedClipHasCurrentName == ~stale

====
